---- MODULE Spec2Model ----
(***************************************************************************)
(* SLAB allocator of src/main.cpp: a cache of fixed-size objects carved    *)
(* out of 4096 * 2^order byte regions obtained from alloc_slab/free_slab.  *)
(* Addresses are integers; a slab header lives at the base address of its  *)
(* region and is modelled by hdr[base].                                    *)
(***************************************************************************)
EXTENDS Integers, FiniteSets, Sequences, TLC

VARIABLES cache, hdr, refs, acquires, releases, phase, last

vars == <<cache, hdr, refs, acquires, releases, phase, last>>

(* ------------------------------ bounds --------------------------------- *)

\* number of distinct aligned regions the page primitive can hand out
MaxSlabs == 2

\* cap on the cumulative number of alloc_slab calls in one run
MaxAcquires == 3

\* number of distinct regions alloc_slab can hand out in the list runs
MaxListSlabs == 3

\* number of successful alloc_slab calls in a list run
MaxListAcquires == 3

\* largest k for which the geometry runs visit the sizes around 4096 * 2^k
MaxGeomK == 11

\* the geometry runs visit header + object_size = 4096 * 2^k + d, |d| <= GeomDelta
GeomDelta == 4

(* ----------------------------- constants ------------------------------- *)

NULL == 0

\* sizeof(slabStruct): two pointers and a uint32_t, padded to pointer alignment
HeaderSize == 24

PageSize == 4096

\* alloc_slab documents order in [0; 10]
MaxOrder == 10

\* object sizes the allocator runs are set up with: 3, 2 and 1 objects per
\* order-0 slab, one object per order-1 slab and one per order-2 slab
ObjectSizes == {1357, 2036, 2048, 4072, 8192}

\* object sizes the list runs are set up with: 2 and 1 objects per order-0
\* slab and one object per order-1 slab
ListSizes == {2036, 2048, 4072}

\* object sizes the geometry calculator is applied to
GeometrySizes ==
    (1 .. 8) \cup
    { PageSize * (2 ^ k) - HeaderSize + d : k \in 0 .. MaxGeomK, d \in (0 - GeomDelta) .. GeomDelta }

(* ------------------------- pure helper functions ------------------------ *)

RECURSIVE smallest_power_of_two(_)
smallest_power_of_two(n) ==
    IF n > 0 THEN 1 + smallest_power_of_two(n \div 2) ELSE 0

\* size (and alignment) in bytes of a region of the given order
RegionSize(order) == PageSize * (2 ^ order)

\* ptr & ~((1 << (slab_order + 12)) - 1)
calculate_slab_start(c, allocation) ==
    allocation - (allocation % (2 ^ (c.slab_order + 12)))

\* the regions alloc_slab can return: aligned on their own size, not NULL,
\* not overlapping a region that is still held
FreeRegions(order, held) ==
    { i * RegionSize(order) : i \in 1 .. MaxSlabs } \ held

\* the regions alloc_slab can return in the list runs
ListRegions(order, held) ==
    { i * RegionSize(order) : i \in 1 .. MaxListSlabs } \ held

(* ------------------------------ lists ---------------------------------- *)

\* variant: the back link of the successor is cleared, not set to previous
remove_from_empty_list_null_back_link(c, h, slab) ==
    LET prev == h[slab].previous
        nxt  == h[slab].next
        h1 == IF prev # NULL THEN [h EXCEPT ![prev].next = nxt] ELSE h
        c1 == IF prev # NULL THEN c
              ELSE IF c.empty_slab = slab THEN [c EXCEPT !.empty_slab = nxt]
              ELSE IF c.partially_slab = slab THEN [c EXCEPT !.partially_slab = nxt]
              ELSE c
        h2 == IF nxt # NULL THEN [h1 EXCEPT ![nxt].previous = NULL] ELSE h1
    IN  [c |-> c1,
         h |-> [h2 EXCEPT ![slab].previous = NULL, ![slab].next = NULL]]

\* variant: the head test looks at the full list only
remove_from_empty_list_full_only(c, h, slab) ==
    LET prev == h[slab].previous
        nxt  == h[slab].next
        h1 == IF prev # NULL THEN [h EXCEPT ![prev].next = nxt] ELSE h
        c1 == IF prev # NULL THEN c
              ELSE IF c.empty_slab = slab THEN [c EXCEPT !.empty_slab = nxt]
              ELSE c
        h2 == IF nxt # NULL THEN [h1 EXCEPT ![nxt].previous = prev] ELSE h1
    IN  [c |-> c1,
         h |-> [h2 EXCEPT ![slab].previous = NULL, ![slab].next = NULL]]

remove_from_empty_list(c, h, slab) ==
    LET prev == h[slab].previous
        nxt  == h[slab].next
        h1 == IF prev # NULL THEN [h EXCEPT ![prev].next = nxt] ELSE h
        c1 == IF prev # NULL THEN c
              ELSE IF c.empty_slab = slab THEN [c EXCEPT !.empty_slab = nxt]
              ELSE IF c.partially_slab = slab THEN [c EXCEPT !.partially_slab = nxt]
              ELSE c
        h2 == IF nxt # NULL THEN [h1 EXCEPT ![nxt].previous = prev] ELSE h1
    IN  [c |-> c1,
         h |-> [h2 EXCEPT ![slab].previous = NULL, ![slab].next = NULL]]

insert_in_complete_list(c, h, slab) ==
    LET h1 == [h EXCEPT ![slab].next = c.complete_slab, ![slab].previous = NULL]
        h2 == IF c.complete_slab # NULL
              THEN [h1 EXCEPT ![c.complete_slab].previous = slab] ELSE h1
    IN  [c |-> [c EXCEPT !.complete_slab = slab], h |-> h2]

insert_in_partially_list(c, h, slab) ==
    LET h1 == [h EXCEPT ![slab].next = c.partially_slab, ![slab].previous = NULL]
        h2 == IF c.partially_slab # NULL
              THEN [h1 EXCEPT ![c.partially_slab].previous = slab] ELSE h1
    IN  [c |-> [c EXCEPT !.partially_slab = slab], h |-> h2]

insert_in_empty_list(c, h, slab) ==
    LET h1 == [h EXCEPT ![slab].next = c.empty_slab, ![slab].previous = NULL]
        h2 == IF c.empty_slab # NULL
              THEN [h1 EXCEPT ![c.empty_slab].previous = slab] ELSE h1
    IN  [c |-> [c EXCEPT !.empty_slab = slab], h |-> h2]

\* the slabs free_list passes to free_slab, in order: it follows next from
\* the head until it reads a null pointer.  Reading the header of a region
\* that is no longer held ends the walk.
RECURSIVE free_list(_, _, _)
free_list(list, h, seen) ==
    IF list = NULL \/ list \notin DOMAIN h \/ list \in seen THEN <<>>
    ELSE <<list>> \o free_list(h[list].next, h, seen \cup {list})

(* --------------------------- cache_setup -------------------------------- *)

setup_cache(c, object_size) ==
    LET order == smallest_power_of_two((HeaderSize + object_size) \div PageSize)
    IN  [complete_slab  |-> NULL,
         partially_slab |-> NULL,
         empty_slab     |-> NULL,
         object_size    |-> object_size,
         slab_order     |-> order,
         slab_objects   |-> IF order > 0 THEN 1
                            ELSE (PageSize - HeaderSize) \div object_size]

(* --------------------------- cache_alloc -------------------------------- *)

\* variant: the slot index is taken after the increment
slot_address_after_increment(c, slab, refcnt) ==
    slab + HeaderSize + c.object_size * (refcnt + 1)

\* address of the slot handed out from slab when its count is refcnt
slot_address(c, slab, refcnt) ==
    slab + HeaderSize + c.object_size * refcnt

\* variant: a slab that becomes full is pushed on the free list
alloc_from_partial_to_free(c, h) ==
    LET cur == c.partially_slab
        result == slot_address(c, cur, h[cur].refcnt)
        h1 == [h EXCEPT ![cur].refcnt = @ + 1]
        c1 == [c EXCEPT !.partially_slab = h1[cur].next]
        h2 == IF c1.partially_slab # NULL
              THEN [h1 EXCEPT ![c1.partially_slab].previous = NULL] ELSE h1
        m  == IF h1[cur].refcnt = c.slab_objects
              THEN insert_in_complete_list(c1, h2, cur)
              ELSE [c |-> c, h |-> h1]
    IN  [c |-> m.c, h |-> m.h, result |-> result, slab |-> cur]

\* branch 1: serve from the head of the partial list
alloc_from_partial(c, h) ==
    LET cur == c.partially_slab
        result == slot_address(c, cur, h[cur].refcnt)
        h1 == [h EXCEPT ![cur].refcnt = @ + 1]
        c1 == [c EXCEPT !.partially_slab = h1[cur].next]
        h2 == IF c1.partially_slab # NULL
              THEN [h1 EXCEPT ![c1.partially_slab].previous = NULL] ELSE h1
        m  == IF h1[cur].refcnt = c.slab_objects
              THEN insert_in_empty_list(c1, h2, cur)
              ELSE [c |-> c, h |-> h1]
    IN  [c |-> m.c, h |-> m.h, result |-> result, slab |-> cur]

\* branch 2: serve from the head of the free list
alloc_from_complete(c, h) ==
    LET cur == c.complete_slab
        result == slot_address(c, cur, 0)
        h1 == [h EXCEPT ![cur].refcnt = @ + 1]
        c1 == [c EXCEPT !.complete_slab = h1[cur].next]
        h2 == IF c1.complete_slab # NULL
              THEN [h1 EXCEPT ![c1.complete_slab].previous = NULL] ELSE h1
        m  == IF h1[cur].refcnt = c.slab_objects
              THEN insert_in_empty_list(c1, h2, cur)
              ELSE insert_in_partially_list(c1, h2, cur)
    IN  [c |-> m.c, h |-> m.h, result |-> result, slab |-> cur]

\* variant: a new slab always goes to the partial list
alloc_from_new_to_partial(c, h, page) ==
    LET h1 == [b \in DOMAIN h \cup {page} |->
                 IF b = page THEN [previous |-> NULL, next |-> NULL, refcnt |-> 1]
                 ELSE h[b]]
        result == slot_address(c, page, 0)
        m  == insert_in_partially_list(c, h1, page)
    IN  [c |-> m.c, h |-> m.h, result |-> result, slab |-> page]

\* branch 3: page is the region alloc_slab returned (not NULL).  The links of
\* the new header are written by the insert before anything reads them.
alloc_from_new(c, h, page) ==
    LET h1 == [b \in DOMAIN h \cup {page} |->
                 IF b = page THEN [previous |-> NULL, next |-> NULL, refcnt |-> 1]
                 ELSE h[b]]
        result == slot_address(c, page, 0)
        m  == IF h1[page].refcnt = c.slab_objects
              THEN insert_in_empty_list(c, h1, page)
              ELSE insert_in_partially_list(c, h1, page)
    IN  [c |-> m.c, h |-> m.h, result |-> result, slab |-> page]

(* ---------------------------- cache_free -------------------------------- *)

\* variant: a slab that stops being full is moved to the partial list
free_object_migrates(c, h, ptr) ==
    LET slab == calculate_slab_start(c, ptr)
        h1 == [h EXCEPT ![slab].refcnt = @ - 1]
    IN  IF h1[slab].refcnt = 0
        THEN LET r == remove_from_empty_list(c, h1, slab)
             IN  insert_in_complete_list(r.c, r.h, slab)
        ELSE IF h1[slab].refcnt = c.slab_objects - 1
        THEN LET r == remove_from_empty_list(c, h1, slab)
             IN  insert_in_partially_list(r.c, r.h, slab)
        ELSE [c |-> c, h |-> h1]

\* variant: the slab is moved to the free list while one object is still out
free_object_moves_early(c, h, ptr) ==
    LET slab == calculate_slab_start(c, ptr)
        h1 == [h EXCEPT ![slab].refcnt = @ - 1]
    IN  IF h1[slab].refcnt <= 1
        THEN LET r == remove_from_empty_list(c, h1, slab)
             IN  insert_in_complete_list(r.c, r.h, slab)
        ELSE [c |-> c, h |-> h1]

\* refcnt is a uint32_t; the decrement is applied to a count of at least 1 in
\* every state the runs below reach (see RefcntPositiveAtFree).
free_object(c, h, ptr) ==
    LET slab == calculate_slab_start(c, ptr)
        h1 == [h EXCEPT ![slab].refcnt = @ - 1]
    IN  IF h1[slab].refcnt = 0
        THEN LET r == remove_from_empty_list(c, h1, slab)
             IN  insert_in_complete_list(r.c, r.h, slab)
        ELSE [c |-> c, h |-> h1]

(* ------------------------- release and shrink --------------------------- *)

\* variant: only the head of the free list is handed to free_slab
shrink_frees_head_only(c, h) ==
    IF c.complete_slab = NULL THEN <<>> ELSE <<c.complete_slab>>

\* cache_shrink: the slabs handed to free_slab
shrink_frees(c, h) == free_list(c.complete_slab, h, {})

\* variant: the partial list is not walked
release_frees_skip_partial(c, h) ==
    LET f1 == free_list(c.complete_slab, h, {})
        s1 == { f1[i] : i \in 1 .. Len(f1) }
        hA == [b \in DOMAIN h \ s1 |-> h[b]]
        f3 == free_list(c.empty_slab, hA, {})
    IN  f1 \o f3

\* cache_release: the slabs handed to free_slab, in call order.  Each walk
\* runs on the memory left by the walks before it.
release_frees(c, h) ==
    LET f1 == free_list(c.complete_slab, h, {})
        s1 == { f1[i] : i \in 1 .. Len(f1) }
        hA == [b \in DOMAIN h \ s1 |-> h[b]]
        f2 == free_list(c.partially_slab, hA, {})
        s2 == { f2[i] : i \in 1 .. Len(f2) }
        hB == [b \in DOMAIN hA \ s2 |-> hA[b]]
        f3 == free_list(c.empty_slab, hB, {})
    IN  f1 \o f2 \o f3

SeqToSet(s) == { s[i] : i \in 1 .. Len(s) }

(* ------------------------------ state ----------------------------------- *)

\* last records the call that produced the state: op, the pointer returned
\* (alloc) or passed (free), the slab served or freed into, whether
\* alloc_slab failed, the slabs passed to free_slab, the previous link the
\* freed object's slab had on entry (pred), and the number of cache_alloc
\* calls made since cache_setup while no other call intervened (streak, -1
\* once another call has intervened).
NextStreak == IF last.streak >= 0 THEN last.streak + 1 ELSE 0 - 1

Init ==
    /\ cache = [complete_slab |-> NULL, partially_slab |-> NULL, empty_slab |-> NULL,
                object_size |-> 0, slab_order |-> 0, slab_objects |-> 0]
    /\ hdr = [b \in {} |-> [previous |-> NULL, next |-> NULL, refcnt |-> 0]]
    /\ refs = {}
    /\ acquires = 0
    /\ releases = 0
    /\ phase = "constructed"
    /\ last = [op |-> "none", ptr |-> NULL, slab |-> NULL, oom |-> FALSE, freed |-> <<>>,
               pred |-> NULL, streak |-> 0 - 1]

\* cache_setup(&cache, object_size) on a cache that holds no slab
cache_setup(object_size) ==
    /\ phase \in {"constructed", "released"}
    /\ cache' = setup_cache(cache, object_size)
    /\ phase' = "ready"
    /\ last' = [op |-> "setup", ptr |-> NULL, slab |-> NULL, oom |-> FALSE, freed |-> <<>>,
                pred |-> NULL, streak |-> 0]
    /\ UNCHANGED <<hdr, refs, acquires, releases>>

\* variant: the free list is tried before the partial list
AllocReuse_free_first ==
    /\ phase = "ready"
    /\ cache.partially_slab # NULL \/ cache.complete_slab # NULL
    /\ LET r == IF cache.complete_slab # NULL
                THEN alloc_from_complete(cache, hdr)
                ELSE alloc_from_partial(cache, hdr)
       IN  /\ cache' = r.c
           /\ hdr' = r.h
           /\ refs' = refs \cup {r.result}
           /\ last' = [op |-> "alloc", ptr |-> r.result, slab |-> r.slab, oom |-> FALSE,
                       freed |-> <<>>, pred |-> NULL, streak |-> NextStreak]
    /\ UNCHANGED <<acquires, releases, phase>>

\* the driver's alloc step: cache_alloc, then refs.insert(pointer)
AllocReuse ==
    /\ phase = "ready"
    /\ cache.partially_slab # NULL \/ cache.complete_slab # NULL
    /\ LET r == IF cache.partially_slab # NULL
                THEN alloc_from_partial(cache, hdr)
                ELSE alloc_from_complete(cache, hdr)
       IN  /\ cache' = r.c
           /\ hdr' = r.h
           /\ refs' = refs \cup {r.result}
           /\ last' = [op |-> "alloc", ptr |-> r.result, slab |-> r.slab, oom |-> FALSE,
                       freed |-> <<>>, pred |-> NULL, streak |-> NextStreak]
    /\ UNCHANGED <<acquires, releases, phase>>

AllocNew ==
    /\ phase = "ready"
    /\ cache.partially_slab = NULL /\ cache.complete_slab = NULL
    /\ acquires < MaxAcquires
    /\ \E page \in FreeRegions(cache.slab_order, DOMAIN hdr) :
         LET r == alloc_from_new(cache, hdr, page)
         IN  /\ cache' = r.c
             /\ hdr' = r.h
             /\ refs' = refs \cup {r.result}
             /\ last' = [op |-> "alloc", ptr |-> r.result, slab |-> r.slab, oom |-> FALSE,
                       freed |-> <<>>, pred |-> NULL, streak |-> NextStreak]
    /\ acquires' = acquires + 1
    /\ UNCHANGED <<releases, phase>>

\* the driver's free step: cache_free on a tracked pointer, then refs.erase
Free ==
    /\ phase = "ready"
    /\ \E p \in refs :
         LET r == free_object(cache, hdr, p)
         IN  /\ cache' = r.c
             /\ hdr' = r.h
             /\ refs' = refs \ {p}
             /\ last' = [op |-> "free", ptr |-> p,
                         slab |-> calculate_slab_start(cache, p), oom |-> FALSE,
                         freed |-> <<>>,
                         pred |-> hdr[calculate_slab_start(cache, p)].previous,
                         streak |-> 0 - 1]
    /\ UNCHANGED <<acquires, releases, phase>>

\* variant: the partial head is cleared together with the free head
Shrink_clears_partial ==
    /\ phase = "ready"
    /\ LET f == shrink_frees(cache, hdr)
       IN  /\ hdr' = [b \in DOMAIN hdr \ SeqToSet(f) |-> hdr[b]]
           /\ releases' = releases + Len(f)
    /\ cache' = [cache EXCEPT !.complete_slab = NULL, !.partially_slab = NULL]
    /\ last' = [op |-> "shrink", ptr |-> NULL, slab |-> NULL, oom |-> FALSE,
                freed |-> shrink_frees(cache, hdr), pred |-> NULL, streak |-> 0 - 1]
    /\ UNCHANGED <<refs, acquires, phase>>

Shrink ==
    /\ phase = "ready"
    /\ LET f == shrink_frees(cache, hdr)
       IN  /\ hdr' = [b \in DOMAIN hdr \ SeqToSet(f) |-> hdr[b]]
           /\ releases' = releases + Len(f)
    /\ cache' = [cache EXCEPT !.complete_slab = NULL]
    /\ last' = [op |-> "shrink", ptr |-> NULL, slab |-> NULL, oom |-> FALSE,
                freed |-> shrink_frees(cache, hdr), pred |-> NULL, streak |-> 0 - 1]
    /\ UNCHANGED <<refs, acquires, phase>>

\* cache_release; the pointers the caller still tracks die with the slabs
Release ==
    /\ phase = "ready"
    /\ LET f == release_frees(cache, hdr)
       IN  /\ hdr' = [b \in DOMAIN hdr \ SeqToSet(f) |-> hdr[b]]
           /\ releases' = releases + Len(f)
    /\ cache' = [cache EXCEPT !.complete_slab = NULL, !.partially_slab = NULL,
                              !.empty_slab = NULL]
    /\ refs' = {}
    /\ phase' = "released"
    /\ last' = [op |-> "release", ptr |-> NULL, slab |-> NULL, oom |-> FALSE,
                freed |-> release_frees(cache, hdr), pred |-> NULL, streak |-> 0 - 1]
    /\ UNCHANGED acquires

Setup == \E s \in ObjectSizes : cache_setup(s)

\* The page primitive satisfies every request of these runs.
Next == Setup \/ AllocReuse \/ AllocNew \/ Free \/ Shrink \/ Release

Spec == Init /\ [][Next]_vars

(* ---------------- runs in which the page primitive can fail ------------- *)

\* cache_alloc when alloc_slab returns NULL (aligned_alloc failed).  The code
\* does not test the result: it stores refcnt = 1 through the null pointer
\* and passes it to an insert, which is undefined behaviour.  Either the
\* store traps and the process dies, or execution continues: the count read
\* back from address 0 is indeterminate, so either insert may run; the
\* insert makes NULL the head of its list and the call returns NULL + 24,
\* which the driver records.  Nothing is modelled after either outcome.
AllocOOM ==
    /\ phase = "ready"
    /\ cache.partially_slab = NULL /\ cache.complete_slab = NULL
    /\ \/ /\ phase' = "crashed"
          /\ last' = [op |-> "alloc", ptr |-> NULL, slab |-> NULL, oom |-> TRUE,
                      freed |-> <<>>, pred |-> NULL, streak |-> 0 - 1]
          /\ UNCHANGED <<cache, refs>>
       \/ /\ phase' = "corrupt"
          /\ \E list \in {"empty_slab", "partially_slab"} :
               cache' = [cache EXCEPT ![list] = NULL]
          /\ refs' = refs \cup {slot_address(cache, NULL, 0)}
          /\ last' = [op |-> "alloc", ptr |-> slot_address(cache, NULL, 0),
                      slab |-> NULL, oom |-> TRUE, freed |-> <<>>,
                      pred |-> NULL, streak |-> 0 - 1]
    /\ UNCHANGED <<hdr, acquires, releases>>

NextOOM == Setup \/ AllocReuse \/ AllocNew \/ AllocOOM \/ Free \/ Shrink \/ Release

SpecOOM == Init /\ [][NextOOM]_vars

(* ------------------- runs of the geometry calculator -------------------- *)

GeomSetup == \E s \in GeometrySizes : cache_setup(s)

NextSetup == GeomSetup \/ Release

SpecSetup == Init /\ [][NextSetup]_vars

(* ------------- runs with three slabs on a list at a time ---------------- *)

\* cache_alloc taking a new slab, with a pool of MaxListSlabs regions
AllocNewList ==
    /\ phase = "ready"
    /\ cache.partially_slab = NULL /\ cache.complete_slab = NULL
    /\ acquires < MaxListAcquires
    /\ \E page \in ListRegions(cache.slab_order, DOMAIN hdr) :
         LET r == alloc_from_new(cache, hdr, page)
         IN  /\ cache' = r.c
             /\ hdr' = r.h
             /\ refs' = refs \cup {r.result}
             /\ last' = [op |-> "alloc", ptr |-> r.result, slab |-> r.slab, oom |-> FALSE,
                       freed |-> <<>>, pred |-> NULL, streak |-> NextStreak]
    /\ acquires' = acquires + 1
    /\ UNCHANGED <<releases, phase>>

ListSetup == \E s \in ListSizes : cache_setup(s)

NextLists == ListSetup \/ AllocReuse \/ AllocNewList \/ Free \/ Shrink \/ Release

SpecLists == Init /\ [][NextLists]_vars

(* ------------------------- derived notions ------------------------------ *)

\* the slabs reachable from a list head through next
RECURSIVE Chain(_, _, _)
Chain(head, h, seen) ==
    IF head = NULL \/ head \notin DOMAIN h \/ head \in seen THEN {}
    ELSE {head} \cup Chain(h[head].next, h, seen \cup {head})

OnFree    == Chain(cache.complete_slab, hdr, {})
OnPartial == Chain(cache.partially_slab, hdr, {})
OnFull    == Chain(cache.empty_slab, hdr, {})

\* the regions acquired from the page primitive and not yet released
Held == DOMAIN hdr

HeadsEmpty ==
    /\ cache.complete_slab = NULL
    /\ cache.partially_slab = NULL
    /\ cache.empty_slab = NULL

\* the byte ranges [p, p + size) and [q, q + size) share a byte
Overlap(p, q, size) == p < q + size /\ q < p + size

NoDuplicates(s) == \A i, j \in 1 .. Len(s) : s[i] = s[j] => i = j

\* the smallest order whose region holds the header and one object
MinOrder(object_size) ==
    CHOOSE o \in 0 .. (MaxGeomK + 2) :
        /\ RegionSize(o) >= HeaderSize + object_size
        /\ \A o2 \in 0 .. (o - 1) : RegionSize(o2) < HeaderSize + object_size

\* cache_free never decrements a zero count in these runs
RefcntPositiveAtFree ==
    [][last'.op = "free" => hdr[last'.slab].refcnt >= 1]_vars

(* ------------------------------- claims --------------------------------- *)

\* C1: every pointer cache_alloc returns is disjoint from every slot that is
\* live (tracked by the caller and not yet freed) at the time of the call.
C1_AllocDisjointFromLive ==
    [][last'.op = "alloc" =>
         \A q \in refs : ~Overlap(last'.ptr, q, cache.object_size)]_vars

\* C2: list membership matches occupancy for every held slab: free list iff
\* refcnt = 0, partial list iff 0 < refcnt < slab_objects, full list iff
\* refcnt = slab_objects.
C2_MembershipMatchesOccupancy ==
    phase = "ready" =>
        \A b \in Held :
            /\ (b \in OnFree) <=> (hdr[b].refcnt = 0)
            /\ (b \in OnPartial) <=>
                   (0 < hdr[b].refcnt /\ hdr[b].refcnt < cache.slab_objects)
            /\ (b \in OnFull) <=> (hdr[b].refcnt = cache.slab_objects)

\* C3: every region acquired and not yet released is on exactly one of the
\* three lists, and the lists hold nothing else.
C3_ExactlyOneList ==
    /\ \A b \in Held :
          Cardinality({ l \in {"f", "p", "u"} :
                          \/ l = "f" /\ b \in OnFree
                          \/ l = "p" /\ b \in OnPartial
                          \/ l = "u" /\ b \in OnFull }) = 1
    /\ cache.complete_slab \in Held \cup {NULL}
    /\ cache.partially_slab \in Held \cup {NULL}
    /\ cache.empty_slab \in Held \cup {NULL}

\* C3 witness: a free moved a slab to the free list while another slab is on
\* the full list
C3_Witness ==
    /\ last.op = "free"
    /\ last.slab \in OnFree
    /\ OnFull # {}

\* C4: after cache_release the three heads are null, no region is held,
\* acquires equal releases and no region was passed to free_slab twice.
C4_ReleaseReturnsEverything ==
    last.op = "release" =>
        /\ HeadsEmpty
        /\ Held = {}
        /\ acquires = releases
        /\ NoDuplicates(last.freed)

\* C4 witness: a release that handed two slabs to free_slab
C4_Witness ==
    /\ last.op = "release"
    /\ Len(last.freed) = 2

\* C5: once every tracked pointer has been freed and cache_shrink has run,
\* the three heads are null and acquires equal releases.
C5_DriverEndsEmpty ==
    (last.op = "shrink" /\ refs = {}) =>
        /\ HeadsEmpty
        /\ acquires = releases

\* C6: right after cache_shrink the free list is empty and no held slab has
\* refcnt = 0.
C6_ShrinkLeavesNoFreeSlab ==
    last.op = "shrink" =>
        /\ cache.complete_slab = NULL
        /\ \A b \in Held : hdr[b].refcnt # 0

\* C6 witness: a shrink that released a slab and left another one held
C6_Witness ==
    /\ last.op = "shrink"
    /\ Len(last.freed) >= 1
    /\ Held # {}

\* C7: when alloc_slab fails, cache_alloc reports it (returns no pointer,
\* the process goes on) and leaves the heads and every header as they were.
C7_OutOfPagesLeavesCacheUnchanged ==
    [][last'.oom =>
         /\ phase' = "ready"
         /\ last'.ptr = NULL
         /\ cache' = cache
         /\ hdr' = hdr]_vars

\* C8: a cache is initialised only for an object_size that fits a slab of
\* order <= 10 together with the header, and then slab_order is in [0,10].
C8_SetupRejectsTooLarge ==
    (last.op = "setup" /\ phase = "ready") =>
        /\ HeaderSize + cache.object_size <= RegionSize(MaxOrder)
        /\ cache.slab_order \in 0 .. MaxOrder

\* C9: cache_setup stores the smallest order whose region holds the header
\* and one object.
C9_SetupChoosesSmallestOrder ==
    last.op = "setup" => cache.slab_order = MinOrder(cache.object_size)

\* the pointer p lies at a valid slot of the held slab s, inside its region,
\* and masking p gives s
ValidSlot(p, s) ==
    LET off == p - s - HeaderSize
    IN  /\ s \in Held
        /\ s % (2 ^ (12 + cache.slab_order)) = 0
        /\ off >= 0
        /\ off % cache.object_size = 0
        /\ off \div cache.object_size < cache.slab_objects
        /\ p + cache.object_size <= s + RegionSize(cache.slab_order)
        /\ calculate_slab_start(cache, p) = s

\* C10: a pointer returned by cache_alloc is a valid slot of the slab it was
\* carved from, and so is every tracked pointer of the slab masking finds.
C10_PointerInsideSlab ==
    /\ last.op = "alloc" => ValidSlot(last.ptr, last.slab)
    /\ phase = "ready" =>
           \A p \in refs : ValidSlot(p, calculate_slab_start(cache, p))

\* C10 witness: an alloc handed out the last slot of a three-slot slab
C10_Witness ==
    /\ last.op = "alloc"
    /\ cache.slab_objects = 3
    /\ last.ptr = last.slab + HeaderSize + 2 * cache.object_size

\* the slabs of a list in list order, following next from the head
RECURSIVE ListSeq(_, _, _)
ListSeq(head, h, seen) ==
    IF head = NULL \/ head \notin DOMAIN h \/ head \in seen THEN <<>>
    ELSE <<head>> \o ListSeq(h[head].next, h, seen \cup {head})

\* C11: cache_alloc serves from the partial-list head if there is one, else
\* from the free-list head if there is one, else from one newly acquired
\* region; a region is acquired iff both lists are empty, and at most one.
C11_AllocSourceOrder ==
    [][last'.op = "alloc" =>
         /\ acquires' - acquires \in {0, 1}
         /\ (acquires' = acquires + 1) <=>
                (cache.partially_slab = NULL /\ cache.complete_slab = NULL)
         /\ IF cache.partially_slab # NULL
            THEN last'.slab = cache.partially_slab /\ Held' = Held
            ELSE IF cache.complete_slab # NULL
            THEN last'.slab = cache.complete_slab /\ Held' = Held
            ELSE last'.slab \notin Held /\ Held' = Held \cup {last'.slab}]_vars

\* C11 witness: an alloc served from the partial list while the free list
\* still holds a slab
C11_Witness ==
    /\ last.op = "alloc"
    /\ last.slab \in OnPartial
    /\ hdr[last.slab].refcnt = 2
    /\ OnFree # {}

\* the slabs on each list of cache value c in memory h
FreeOf(c, h)    == Chain(c.complete_slab, h, {})
PartialOf(c, h) == Chain(c.partially_slab, h, {})
FullOf(c, h)    == Chain(c.empty_slab, h, {})

\* an alloc step that fills a slab leaves it on the full list only, and an
\* alloc step that follows a filling alloc serves from another slab
FillMovesToFull ==
    /\ (last'.op = "alloc" /\ hdr'[last'.slab].refcnt = cache'.slab_objects) =>
           /\ last'.slab \in FullOf(cache', hdr')
           /\ last'.slab \notin PartialOf(cache', hdr') \cup FreeOf(cache', hdr')
    /\ (/\ last.op = "alloc"
        /\ last.slab \in Held
        /\ hdr[last.slab].refcnt = cache.slab_objects
        /\ last'.op = "alloc") =>
           last'.slab # last.slab

\* after slab_objects allocs on a fresh cache: one full slab, nothing else
AfterFill(c, h, l) ==
    l.streak = c.slab_objects =>
        /\ Cardinality(FullOf(c, h)) = 1
        /\ PartialOf(c, h) = {}
        /\ FreeOf(c, h) = {}

\* C12 as stated: a filling alloc moves the slab to the full list and the
\* next alloc avoids it; slab_objects allocs on a fresh cache leave one full
\* slab and nothing else; one more alloc leaves one full and one partial slab.
C12_FillThenNewSlab_AsStated ==
    [][/\ FillMovesToFull
       /\ AfterFill(cache', hdr', last')
       /\ last'.streak = cache'.slab_objects + 1 =>
              /\ Cardinality(FullOf(cache', hdr')) = 1
              /\ Cardinality(PartialOf(cache', hdr')) = 1
              /\ FreeOf(cache', hdr') = {}]_vars

\* C12 amended: as stated, except that the alloc after the fill leaves one
\* full and one partial slab only when slab_objects > 1; with slab_objects = 1
\* it leaves two full slabs and no partial slab.
C12_FillThenNewSlab ==
    [][/\ FillMovesToFull
       /\ AfterFill(cache', hdr', last')
       /\ last'.streak = cache'.slab_objects + 1 =>
              /\ FreeOf(cache', hdr') = {}
              /\ IF cache'.slab_objects > 1
                 THEN /\ Cardinality(FullOf(cache', hdr')) = 1
                      /\ Cardinality(PartialOf(cache', hdr')) = 1
                 ELSE /\ Cardinality(FullOf(cache', hdr')) = 2
                      /\ PartialOf(cache', hdr') = {}]_vars

\* C12 witness: slab_objects + 1 allocs on a fresh cache of 3-slot slabs
C12_Witness ==
    /\ last.op = "alloc"
    /\ cache.slab_objects = 3
    /\ last.streak = 4

\* C13: a cache_free that takes a full slab of a cache with slab_objects > 1
\* down to slab_objects - 1 moves it from the full list to the partial list.
C13_FreeFromFullMovesToPartial ==
    [][(/\ last'.op = "free"
        /\ cache.slab_objects > 1
        /\ hdr[last'.slab].refcnt = cache.slab_objects) =>
           /\ last'.slab \in PartialOf(cache', hdr')
           /\ last'.slab \notin FullOf(cache', hdr')]_vars

\* the three lists as sets of slabs with their counts
ListsView(c, h) ==
    [free    |-> { <<b, h[b].refcnt>> : b \in FreeOf(c, h) },
     partial |-> { <<b, h[b].refcnt>> : b \in PartialOf(c, h) },
     full    |-> { <<b, h[b].refcnt>> : b \in FullOf(c, h) }]

\* cache_free(cache_alloc(c)) when the alloc reuses a slab of the cache
RoundTripReuse(c, h) ==
    LET a == IF c.partially_slab # NULL THEN alloc_from_partial(c, h)
             ELSE alloc_from_complete(c, h)
    IN  free_object(a.c, a.h, a.result)

\* cache_free(cache_alloc(c)) when the alloc acquires the region page
RoundTripNew(c, h, page) ==
    LET a == alloc_from_new(c, h, page)
    IN  free_object(a.c, a.h, a.result)

\* C14: in every reachable state cache_free(cache_alloc(c)) leaves the lists,
\* as sets of slabs with their refcnt, as they were when the alloc reuses a
\* slab, and as they were plus one slab with refcnt 0 on the free list when
\* the alloc acquires a new slab.
C14_AllocFreeRoundTrip ==
    phase = "ready" =>
        IF cache.partially_slab # NULL \/ cache.complete_slab # NULL
        THEN LET r == RoundTripReuse(cache, hdr)
             IN  ListsView(r.c, r.h) = ListsView(cache, hdr)
        ELSE \A page \in FreeRegions(cache.slab_order, Held) :
                 LET r == RoundTripNew(cache, hdr, page)
                     v == ListsView(cache, hdr)
                 IN  ListsView(r.c, r.h) =
                         [v EXCEPT !.free = @ \cup {<<page, 0>>}]

\* C15: in a cache with slab_objects = 1 (object_size 8192 gives slab_order 2
\* and slab_objects 1) the partial list is always empty, every alloc leaves
\* the slab it serves from on the full list, and every free moves the
\* object's slab from the full list to the free list.
C15_SingleObjectSlabs ==
    [][/\ (phase' = "ready" /\ cache'.object_size = 8192) =>
              (cache'.slab_order = 2 /\ cache'.slab_objects = 1)
       /\ (phase' = "ready" /\ cache'.slab_objects = 1) =>
              /\ PartialOf(cache', hdr') = {}
              /\ last'.op = "alloc" =>
                     /\ last'.slab \in FullOf(cache', hdr')
                     /\ last'.slab \notin FreeOf(cache', hdr')
              /\ last'.op = "free" =>
                     /\ last'.slab \in FullOf(cache, hdr)
                     /\ last'.slab \notin FullOf(cache', hdr')
                     /\ last'.slab \in FreeOf(cache', hdr')]_vars

\* C15 witness: in a cache of order-2 single-object slabs a free moved a slab
\* to the free list while another slab stays full
C15_Witness ==
    /\ last.op = "free"
    /\ cache.object_size = 8192
    /\ cache.slab_objects = 1
    /\ last.slab \in OnFree
    /\ OnFull # {}

\* the tracked pointers that calculate_slab_start maps to slab b
OutstandingIn(b) == { p \in refs : calculate_slab_start(cache, p) = b }

\* C16: for every held slab, 0 <= refcnt <= slab_objects and refcnt is the
\* number of distinct outstanding slots of that slab.
C16_RefcntCountsOutstanding ==
    phase = "ready" =>
        \A b \in Held :
            /\ 0 <= hdr[b].refcnt
            /\ hdr[b].refcnt <= cache.slab_objects
            /\ hdr[b].refcnt = Cardinality(OutstandingIn(b))

\* C17: cache_shrink passes exactly the slabs of the free list to free_slab,
\* each once; the partial and full lists (members, order, headers) and
\* object_size, slab_order, slab_objects are unchanged.
C17_ShrinkFrame ==
    [][last'.op = "shrink" =>
         /\ SeqToSet(last'.freed) = OnFree
         /\ NoDuplicates(last'.freed)
         /\ Held' = Held \ OnFree
         /\ releases' = releases + Cardinality(OnFree)
         /\ cache'.partially_slab = cache.partially_slab
         /\ cache'.empty_slab = cache.empty_slab
         /\ ListSeq(cache'.partially_slab, hdr', {}) = ListSeq(cache.partially_slab, hdr, {})
         /\ ListSeq(cache'.empty_slab, hdr', {}) = ListSeq(cache.empty_slab, hdr, {})
         /\ \A b \in OnPartial \cup OnFull : b \in Held' /\ hdr'[b] = hdr[b]
         /\ cache'.object_size = cache.object_size
         /\ cache'.slab_order = cache.slab_order
         /\ cache'.slab_objects = cache.slab_objects]_vars

\* C17 witness: a shrink released one slab while a partial slab with an
\* object out stays in the cache
C17_Witness ==
    /\ last.op = "shrink"
    /\ Len(last.freed) = 1
    /\ OnPartial # {}
    /\ refs # {}

\* C18: every outstanding pointer lies in a slab that is still held and is
\* on the partial or the full list; cache_shrink never releases such a slab.
C18_OutstandingStayHeld ==
    phase = "ready" =>
        \A p \in refs :
            LET b == calculate_slab_start(cache, p)
            IN  /\ b \in Held
                /\ b \in OnPartial \cup OnFull
                /\ b \notin SeqToSet(last.freed)

\* C18 witness: a shrink released a slab while pointers are outstanding
C18_Witness ==
    /\ last.op = "shrink"
    /\ Len(last.freed) >= 1
    /\ Cardinality(refs) >= 2

\* the list rooted at head is a null-terminated doubly linked chain of held
\* slabs: the head has no previous, and each next is answered by a previous
WellFormedList(head, h) ==
    LET seq == ListSeq(head, h, {})
    IN  /\ head \in DOMAIN h \cup {NULL}
        /\ head # NULL => h[head].previous = NULL
        /\ \A i \in 1 .. Len(seq) :
              LET n == seq[i]
              IN  IF i < Len(seq)
                  THEN h[n].next = seq[i + 1] /\ h[seq[i + 1]].previous = n
                  ELSE h[n].next = NULL
        /\ NoDuplicates(seq)

WellFormedLists(c, h) ==
    /\ WellFormedList(c.complete_slab, h)
    /\ WellFormedList(c.partially_slab, h)
    /\ WellFormedList(c.empty_slab, h)

Without(seq, x) == SelectSeq(seq, LAMBDA e : e # x)

\* C19: after every call each list is a well-formed acyclic doubly linked
\* chain, and when cache_free takes a slab to refcnt 0 the slab is removed
\* from the list it is on (full or partial, as head or further down), the
\* other members keep their order, and the slab becomes the free-list head.
C19_ListsWellFormed ==
    [][/\ WellFormedLists(cache', hdr')
       /\ (last'.op = "free" /\ hdr'[last'.slab].refcnt = 0) =>
              /\ last'.slab \in OnFull \cup OnPartial
              /\ ListSeq(cache'.empty_slab, hdr', {}) =
                     Without(ListSeq(cache.empty_slab, hdr, {}), last'.slab)
              /\ ListSeq(cache'.partially_slab, hdr', {}) =
                     Without(ListSeq(cache.partially_slab, hdr, {}), last'.slab)
              /\ ListSeq(cache'.complete_slab, hdr', {}) =
                     <<last'.slab>> \o ListSeq(cache.complete_slab, hdr, {})]_vars

\* C19 witness: a free unlinked a slab from the middle of the full list: the
\* slab had a predecessor, and the predecessor's next is now the slab's old
\* successor, so both branches of remove_from_empty_list stored a link
C19_Witness ==
    /\ last.op = "free"
    /\ last.slab \in OnFree
    /\ last.pred \in OnFull
    /\ hdr[last.pred].next \in OnFull
    /\ hdr[hdr[last.pred].next].previous = last.pred

\* C20: the partial list never holds more than one slab; a slab enters it
\* only by an alloc made while it is empty, and never straight from the
\* full list.
C20_AtMostOnePartial ==
    [][/\ Cardinality(PartialOf(cache', hdr')) <= 1
       /\ \A b \in PartialOf(cache', hdr') \ OnPartial :
              /\ last'.op = "alloc"
              /\ last'.slab = b
              /\ OnPartial = {}
              /\ b \notin OnFull]_vars

\* C20 witness: an alloc opened a new partial slab although a slab on the
\* full list has room again
C20_Witness ==
    /\ last.op = "alloc"
    /\ OnPartial = {last.slab}
    /\ hdr[last.slab].refcnt = 1
    /\ \E b \in OnFull : hdr[b].refcnt < cache.slab_objects

====
